---- MODULE Spec2Model ----
(***************************************************************************)
(* Model of the protoc-go Compiler (src/compiler.go): file discovery,      *)
(* import scanning, the smart inclusion filter, import resolution and the  *)
(* assembly of the protoc argument list.                                   *)
(*                                                                         *)
(* Paths.  A canonical absolute path is the sequence of its components     *)
(* (<<"r", "sub", "a.proto">> is /r/sub/a.proto).  A path as a caller      *)
(* spells it is a record [abs, comps, trail]: absolute or relative to the  *)
(* working directory, its components (which may be "." and ".."), and      *)
(* whether it ends in a separator.  An import literal is the sequence of   *)
(* the components between its quotes.                                      *)
(***************************************************************************)
EXTENDS Integers, Sequences, FiniteSets, TLC

VARIABLES
    c,          \* the Compiler struct (configuration fields and foundFiles)
    fs,         \* the .proto files on disk: path -> content
    hostOS,     \* "unix" or "windows": decides filepath's separator
    installed,  \* the binaries exec.LookPath finds
    ret,        \* the last call: its name, its error, whether it ran analyzeImports
    cmdArgs,    \* the argument list the last Compile handed to exec.CommandContext
    filt,       \* the locals of the last filterImportedOnlyFiles run
    analysis,   \* the locals of the last analyzeImports run
    stdout,     \* what the last call printed
    effects,    \* what the last call did outside the Compiler, and the string it returned
    mu,         \* c.mu: 0 when free, else the goroutine that holds it
    proc,       \* per goroutine: the method it runs, where it is, its locals
    api,        \* the Compiler struct of src/api.go
    apiRet,     \* the last call on it
    roots,      \* the include paths given to the deduplicating buildCommand, and its -I list
    scan        \* the lines given to parseImportsFromFile, and what it returned

vars == <<c, fs, hostOS, installed, ret, cmdArgs, filt, analysis, stdout,
          effects, mu, proc, api, apiRet, roots, scan>>

\* what one Compiler method called from a single goroutine leaves alone
world == <<fs, hostOS, installed, mu, proc, api, apiRet, roots, scan>>

----------------------------------------------------------------------------
(* Bounds *)

\* the import statements of all files together
MaxTotalImports == 2
\* the extra roots one WithProtoPaths call passes
MaxProtoPaths == 1
\* the extra include paths given to the deduplicating buildCommand
MaxExtraRoots == 2
\* the statements and comment marks on one line of a scanned file
MaxLineItems == 2
\* the lines of a scanned file
MaxLines == 2

----------------------------------------------------------------------------
(* The file system the model ranges over *)

\* the process's working directory
Cwd == <<"r">>

FileA == <<"r", "a.proto">>
FileSubA == <<"r", "sub", "a.proto">>
FileSubC == <<"r", "sub", "c.proto">>
FileExt == <<"x", "d.proto">>
FileNotes == <<"r", "notes.txt">>

\* every file there can be, in the lexical order filepath.Walk visits them
FileUniverse == <<FileA, FileNotes, FileSubA, FileSubC, FileExt>>

\* the .proto files whose presence and content vary
RootFiles == {FileA, FileSubA, FileSubC}

\* files that are always there: one under the extra root, one that is no .proto
FixedFiles == {FileExt, FileNotes}

Dirs == {<<>>, <<"r">>, <<"r", "sub">>, <<"x">>}

ProtoNames == {"a.proto", "c.proto", "d.proto"}

Literals == {<<"a.proto">>, <<"c.proto">>, <<"d.proto">>}

SeqsUpTo(S, n) == UNION {[1..k -> S] : k \in 0..n}

RECURSIVE SumSeq(_)
SumSeq(s) == IF s = <<>> THEN 0 ELSE Head(s) + SumSeq(Tail(s))

\* what a .proto file holds, as far as the scanners see it
Content(imps, svc, msg) ==
    [imports |-> imps, service |-> svc, message |-> msg, readable |-> TRUE]

\* a file with that content which os.Open and os.ReadFile cannot open
UnreadableContent(imps, svc, msg) ==
    [imports |-> imps, service |-> svc, message |-> msg, readable |-> FALSE]

\* what a file declares: nothing, messages, or a service with its messages
Declarations == {"none", "message", "service"}

----------------------------------------------------------------------------
(* path/filepath and os, as the Compiler uses them *)

\* a path as spelled: Path(TRUE, <<"r">>, TRUE) is "/r/"
Path(isAbs, comps, trail) == [abs |-> isAbs, comps |-> comps, trail |-> trail]

RECURSIVE CleanFrom(_, _)
CleanFrom(comps, acc) ==
    IF comps = <<>> THEN acc
    ELSE IF Head(comps) = "." THEN CleanFrom(Tail(comps), acc)
    ELSE IF Head(comps) = ".."
        THEN CleanFrom(Tail(comps),
                       IF acc = <<>> THEN <<>> ELSE SubSeq(acc, 1, Len(acc) - 1))
    ELSE CleanFrom(Tail(comps), Append(acc, Head(comps)))

\* filepath.Clean of a rooted path: "." dropped, ".." resolved, no trailing separator
Clean(comps) == CleanFrom(comps, <<>>)

\* filepath.Abs: the canonical absolute path a spelling denotes
Abs(p) == Clean(IF p.abs THEN p.comps ELSE Cwd \o p.comps)

\* the spelling filepath.Abs returns
AbsPath(p) == Path(TRUE, Abs(p), FALSE)

\* filepath.Join of a directory and an import literal
Join(dir, lit) == Clean(dir \o lit)

\* filepath.Dir of a canonical file path
Dir(file) == IF file = <<>> THEN <<>> ELSE SubSeq(file, 1, Len(file) - 1)

IsPrefix(dir, file) ==
    /\ Len(dir) <= Len(file)
    /\ SubSeq(file, 1, Len(dir)) = dir

RECURSIVE CommonLen(_, _)
CommonLen(a, b) ==
    IF a = <<>> \/ b = <<>> \/ Head(a) # Head(b) THEN 0
    ELSE 1 + CommonLen(Tail(a), Tail(b))

\* the host's path separator
Separator == IF hostOS = "windows" THEN "\\" ELSE "/"

\* filepath.Rel of two canonical absolute paths: ".." for each component of
\* base below the common prefix, then the rest of targ, joined by Separator
Rel(base, targ) ==
    LET k == CommonLen(base, targ)
    IN [ok |-> TRUE,
        comps |-> [i \in 1..(Len(base) - k) |-> ".."]
                    \o SubSeq(targ, k + 1, Len(targ)),
        sep |-> Separator]

\* os.Stat succeeds: a file or a directory is there
Exists(p) == p \in DOMAIN fs \/ p \in FixedFiles \/ p \in Dirs

\* strings.HasSuffix(strings.ToLower(path), ".proto")
HasProtoSuffix(file) == file # <<>> /\ file[Len(file)] \in ProtoNames

\* filepath.Walk below dir, keeping the .proto files, in lexical order
Walk(dir) ==
    SelectSeq(FileUniverse,
              LAMBDA f : /\ f \in DOMAIN fs \/ f \in FixedFiles
                         /\ IsPrefix(dir, f)
                         /\ HasProtoSuffix(f))

----------------------------------------------------------------------------
(* The scanners *)

\* parseImportsFromFile: the import literals of a file in file order, or an
\* error when the file cannot be opened
parseImportsFromFile(file) ==
    IF file \in DOMAIN fs /\ fs[file].readable
    THEN [ok |-> TRUE, imports |-> fs[file].imports]
    ELSE IF file \in FixedFiles THEN [ok |-> TRUE, imports |-> <<>>]
    ELSE [ok |-> FALSE, imports |-> <<>>]

fileHasServiceDefinition(file) ==
    file \in DOMAIN fs /\ fs[file].readable /\ fs[file].service

fileHasMessageDefinitions(file) ==
    file \in DOMAIN fs /\ fs[file].readable /\ fs[file].message

\* resolveImportPath: next to the source file first, then under protoDir
resolveImportPath(importPath, sourceFile, protoDir) ==
    IF Exists(Join(Dir(sourceFile), importPath))
    THEN [ok |-> TRUE, path |-> Join(Dir(sourceFile), importPath)]
    ELSE IF Exists(Join(Abs(protoDir), importPath))
    THEN [ok |-> TRUE, path |-> Join(Abs(protoDir), importPath)]
    ELSE [ok |-> FALSE, path |-> <<>>]

----------------------------------------------------------------------------
(* The smart filter *)

\* what fmt.Printf writes when c.verbose is set
Printed(cc, msgs) == IF cc.verbose THEN msgs ELSE <<>>

MapSeq(s, Op(_)) == [i \in 1..Len(s) |-> Op(s[i])]

\* a map read with Go's zero default
Lookup(table, key) == IF key \in DOMAIN table THEN table[key] ELSE 0

\* the loop over c.foundFiles and their imports: one record per call of
\* resolveImportPath, for the files parseImportsFromFile could read
importEdges(cc) ==
    UNION { LET file == cc.foundFiles[k]
                parsed == parseImportsFromFile(file)
            IN  IF ~parsed.ok THEN {}
                ELSE { LET r == resolveImportPath(parsed.imports[i], file, cc.protoDir)
                       IN  [from |-> file, idx |-> i, literal |-> parsed.imports[i],
                            ok |-> r.ok, to |-> r.path]
                       : i \in 1..Len(parsed.imports) }
            : k \in 1..Len(cc.foundFiles) }

\* fileImportCount[absImportPath]++ for every import that resolved
countImports(edges) ==
    [p \in {e.to : e \in {x \in edges : x.ok}} |->
        Cardinality({e \in edges : e.ok /\ e.to = p})]

\* the mutation of keepFile: a file nothing imports is kept only with a marker
keepFileNeedsMarker(file, importCount) ==
    \/ fileHasServiceDefinition(file)
    \/ (fileHasMessageDefinitions(file) /\ importCount = 0)

\* the mutation of keepFile: a file with messages is kept whatever imports it
keepFileWithMessages(file, importCount) ==
    \/ importCount = 0
    \/ fileHasServiceDefinition(file)
    \/ fileHasMessageDefinitions(file)

\* the mutation of keepFile: a file is kept when another file imports it
keepFileImported(file, importCount) ==
    \/ importCount > 0
    \/ fileHasServiceDefinition(file)

\* the keep condition of the filter's second loop
keepFile(file, importCount) ==
    \/ importCount = 0
    \/ fileHasServiceDefinition(file)
    \/ (fileHasMessageDefinitions(file) /\ importCount = 0)

\* the files of a list, each once for every reason there is to keep it
RECURSIVE keptPerReason(_, _)
keptPerReason(files, table) ==
    IF files = <<>> THEN <<>>
    ELSE (IF Lookup(table, Head(files)) = 0 THEN <<Head(files)>> ELSE <<>>)
         \o (IF fileHasServiceDefinition(Head(files)) THEN <<Head(files)>> ELSE <<>>)
         \o keptPerReason(Tail(files), table)

\* the mutation of keepLoop that appends a file once for every reason
keepLoopPerReason(cc, table) ==
    [kept |-> keptPerReason(cc.foundFiles, table),
     printed |->
        Printed(cc,
            MapSeq(SelectSeq(cc.foundFiles,
                             LAMBDA f : ~keepFile(f, Lookup(table, f))),
                   LAMBDA f : [msg |-> "Smart filter: Excluding",
                               file |-> f, n |-> Lookup(table, f)]))]

\* the filter's second loop: the files kept, and what is said of the others
keepLoop(cc, table) ==
    [kept |-> SelectSeq(cc.foundFiles, LAMBDA f : keepFile(f, Lookup(table, f))),
     printed |->
        Printed(cc,
            MapSeq(SelectSeq(cc.foundFiles,
                             LAMBDA f : ~keepFile(f, Lookup(table, f))),
                   LAMBDA f : [msg |-> "Smart filter: Excluding",
                               file |-> f, n |-> Lookup(table, f)]))]

\* the mutation of filterResult: no fallback to the original list
filterResultWithoutFallback(cc, edges, table, loop) ==
    [files |-> loop.kept, kept |-> loop.kept, fileImportCount |-> table,
     edges |-> edges, printed |-> loop.printed, err |-> ""]

\* the end of filterImportedOnlyFiles: the original list when nothing is
\* kept.  files is what the filter returns, the other fields are its locals
\* (kept is the local slice "filtered")
filterResult(cc, edges, table, loop) ==
    [files |-> IF Len(loop.kept) = 0 THEN cc.foundFiles ELSE loop.kept,
     kept |-> loop.kept, fileImportCount |-> table, edges |-> edges,
     printed |-> loop.printed, err |-> ""]

filterCounted(cc, edges, table) ==
    filterResult(cc, edges, table, keepLoop(cc, table))

filterScanned(cc, edges) == filterCounted(cc, edges, countImports(edges))

\* the mutation of filterImportedOnlyFiles that returns the error of a file
\* it cannot parse
filterFailingOnUnreadable(cc) ==
    IF Len(cc.foundFiles) <= 1
    THEN [files |-> cc.foundFiles, kept |-> cc.foundFiles,
          fileImportCount |-> <<>>, edges |-> {}, printed |-> <<>>, err |-> ""]
    ELSE IF \E k \in 1..Len(cc.foundFiles) : ~parseImportsFromFile(cc.foundFiles[k]).ok
    THEN [files |-> <<>>, kept |-> <<>>, fileImportCount |-> <<>>, edges |-> {},
          printed |-> <<>>, err |-> "open"]
    ELSE filterScanned(cc, importEdges(cc))

\* filterImportedOnlyFiles; err is the error it returns, always nil
filterImportedOnlyFiles(cc) ==
    IF Len(cc.foundFiles) <= 1
    THEN [files |-> cc.foundFiles, kept |-> cc.foundFiles,
          fileImportCount |-> <<>>, edges |-> {}, printed |-> <<>>, err |-> ""]
    ELSE filterScanned(cc, importEdges(cc))

----------------------------------------------------------------------------
(* analyzeImports and FindFiles *)

\* the set as a sequence, in some order
RECURSIVE SetToSeq(_)
SetToSeq(S) ==
    IF S = {} THEN <<>>
    ELSE LET x == CHOOSE y \in S : TRUE IN <<x>> \o SetToSeq(S \ {x})

\* analyzeImports: which of the distinct import literals of the files exist
\* under the proto directory or under a user-specified proto path
analyzeImports(cc, files) ==
    LET allSearchPaths == <<Abs(cc.protoDir)>> \o MapSeq(cc.protoPaths, Abs)
        allImports ==
            UNION { LET parsed == parseImportsFromFile(files[k])
                    IN  IF parsed.ok
                        THEN {parsed.imports[i] : i \in 1..Len(parsed.imports)}
                        ELSE {}
                    : k \in 1..Len(files) }
        found(importPath) ==
            \E j \in 1..Len(allSearchPaths) :
                Exists(Join(allSearchPaths[j], importPath))
        notFound == {imp \in allImports : ~found(imp)}
        importsFound == Cardinality(allImports \ notFound)
        totalImports == Cardinality(allImports)
    IN  [ran |-> TRUE, importsFound |-> importsFound,
         totalImports |-> totalImports, notFound |-> notFound,
         printed |-> Printed(cc,
            MapSeq(SetToSeq(notFound),
                   LAMBDA imp : [msg |-> "Warning: Import not found",
                                 file |-> imp, n |-> 0])
            \o IF totalImports > 0
               THEN <<[msg |-> "Import resolution", file |-> <<>>,
                       n |-> importsFound]>>
               ELSE <<>>)]

NoAnalysis ==
    [ran |-> FALSE, importsFound |-> 0, totalImports |-> 0, notFound |-> {},
     printed |-> <<>>]

\* FindFiles: the walk of the proto directory, the cache of its result and,
\* with autoDetectImports, the import analysis
FindFiles(cc) ==
    LET absProtoDir == Abs(cc.protoDir)
        files == Walk(absProtoDir)
    IN  IF ~Exists(absProtoDir)
        THEN [c |-> cc, files |-> <<>>, err |-> "walk directory", analysis |-> NoAnalysis]
        ELSE [c |-> [cc EXCEPT !.foundFiles = files], files |-> files,
              err |-> "",
              analysis |-> IF cc.autoDetectImports /\ Len(files) > 0
                           THEN analyzeImports(cc, files)
                           ELSE NoAnalysis]

----------------------------------------------------------------------------
(* validate and buildCommand *)

\* exec.LookPath
LookPath(tool) == tool \in installed

\* the binary a plugin name stands for; "" when validate does not look it up
PluginBinary(plugin) ==
    IF plugin = "go" THEN "protoc-gen-go"
    ELSE IF plugin = "go-grpc" THEN "protoc-gen-go-grpc"
    ELSE ""

\* validate: protoc, then the plugins in order, then both directories made
\* absolute; err is "" when the configuration is valid
validate(cc) ==
    LET missing == {i \in 1..Len(cc.plugins) :
                        /\ PluginBinary(cc.plugins[i]) # ""
                        /\ ~LookPath(PluginBinary(cc.plugins[i]))}
        first == CHOOSE i \in missing : \A j \in missing : i <= j
    IN  IF ~LookPath("protoc")
        THEN [err |-> "ErrProtocNotFound", plugin |-> "", c |-> cc]
        ELSE IF missing # {}
        THEN [err |-> "ErrPluginNotFound",
              plugin |-> PluginBinary(cc.plugins[first]), c |-> cc]
        ELSE [err |-> "", plugin |-> "",
              c |-> [cc EXCEPT !.protoDir = AbsPath(cc.protoDir),
                               !.outputDir = AbsPath(cc.outputDir)]]

\* the mutation of buildPluginOpts that writes the ":" whether or not there
\* is an option
buildPluginOptsAlwaysColon(prefix, options, outputDir) ==
    LET opts == (IF prefix # "" THEN <<prefix>> ELSE <<>>) \o options
    IN  [opts |-> opts, colon |-> TRUE, dir |-> outputDir]

\* buildPluginOpts: the options joined by ",", a ":" when there is any, then
\* the output directory
buildPluginOpts(prefix, options, outputDir) ==
    LET opts == (IF prefix # "" THEN <<prefix>> ELSE <<>>) \o options
    IN  [opts |-> opts, colon |-> Len(opts) > 0, dir |-> outputDir]

\* "-I" followed by a directory
IncludeFlag(dir) == [kind |-> "-I", dir |-> dir]

\* "--<plugin>_out=" followed by its value
OutputFlag(cc, plugin) ==
    [kind |-> "out", plugin |-> plugin,
     value |-> IF plugin = "go"
               THEN buildPluginOpts("", cc.goOpts, cc.outputDir)
               ELSE IF plugin = "go-grpc"
               THEN buildPluginOpts("", cc.goGrpcOpts, cc.outputDir)
               ELSE [opts |-> <<>>, colon |-> FALSE, dir |-> cc.outputDir]]

\* a file argument: the path relative to protoDir, or the absolute path when
\* filepath.Rel fails
FileArg(cc, file) ==
    LET r == Rel(Abs(cc.protoDir), file)
    IN  IF r.ok
        THEN [kind |-> "file", relative |-> TRUE, comps |-> r.comps, sep |-> r.sep]
        ELSE [kind |-> "file", relative |-> FALSE, comps |-> file, sep |-> Separator]

\* the warnings of buildCommand's file loop
FileWarnings(cc) ==
    MapSeq(SelectSeq(cc.foundFiles, LAMBDA f : ~Rel(Abs(cc.protoDir), f).ok),
           LAMBDA f : [msg |-> "Warning: File is outside proto directory",
                       file |-> f, n |-> 0])

\* the mutation of buildCommand that passes every user-specified proto path
buildCommandAllPaths(cc) ==
    [args |-> <<IncludeFlag(cc.protoDir)>>
              \o MapSeq(cc.protoPaths, IncludeFlag)
              \o MapSeq(cc.plugins, LAMBDA p : OutputFlag(cc, p))
              \o MapSeq(cc.foundFiles, LAMBDA f : FileArg(cc, f)),
     printed |-> Printed(cc, FileWarnings(cc))]

\* the mutation of buildCommand that lists the files before the plugin outputs
buildCommandFilesFirst(cc) ==
    [args |-> <<IncludeFlag(cc.protoDir)>>
              \o MapSeq(cc.foundFiles, LAMBDA f : FileArg(cc, f))
              \o MapSeq(cc.plugins, LAMBDA p : OutputFlag(cc, p)),
     printed |-> Printed(cc, FileWarnings(cc))]

\* buildCommand: the single -I of the proto directory, one output flag per
\* plugin, one argument per found file
buildCommand(cc) ==
    [args |-> <<IncludeFlag(cc.protoDir)>>
              \o MapSeq(cc.plugins, LAMBDA p : OutputFlag(cc, p))
              \o MapSeq(cc.foundFiles, LAMBDA f : FileArg(cc, f)),
     printed |-> Printed(cc, FileWarnings(cc))]

----------------------------------------------------------------------------
(* Compile *)

NoFilter ==
    [ran |-> FALSE, input |-> <<>>, files |-> <<>>, kept |-> <<>>,
     fileImportCount |-> <<>>, edges |-> {}]

\* no directory created, protoc not run, "" returned
NoEffects == [mkdirAll |-> <<>>, execs |-> 0, captured |-> "", returned |-> ""]

Outcome(cc, op, err, analyzed, args, f, a, printed) ==
    [c |-> cc, ret |-> [op |-> op, err |-> err, analyzed |-> analyzed],
     cmdArgs |-> args, filt |-> f, analysis |-> a, stdout |-> printed,
     effects |-> NoEffects]

\* os.MkdirAll succeeds unless the path, or a directory above it, is a file
MkdirAll(dir) ==
    ~\E k \in 1..Len(Abs(dir)) :
        LET p == SubSeq(Abs(dir), 1, k)
        IN  p \in DOMAIN fs \/ p \in FixedFiles

\* cmd.CombinedOutput: what protoc wrote, by its exit status
CombinedOutput(exit) ==
    IF exit # 0 THEN "protoc: errors" ELSE "protoc: done"

\* the mutation of Executed that runs protoc again after a failure and
\* returns no output with the error
ExecutedWithRetry(c3, exit) ==
    [mkdirAll |-> <<c3.outputDir>>, execs |-> IF exit # 0 THEN 2 ELSE 1,
     captured |-> CombinedOutput(exit),
     returned |-> IF exit # 0 THEN "" ELSE CombinedOutput(exit)]

\* what Compile did once the command is built: the output directory
\* created, protoc run once, its combined output returned
Executed(c3, exit) ==
    [mkdirAll |-> <<c3.outputDir>>, execs |-> 1,
     captured |-> CombinedOutput(exit), returned |-> CombinedOutput(exit)]

\* Compile from the output directory on: MkdirAll, buildCommand, the
\* verbose listing, and the exit status of protoc
compileBuilt(c3, found, seen, said, cmd, exit) ==
    IF ~MkdirAll(c3.outputDir)
    THEN Outcome(c3, "Compile", "create output directory", found.analysis.ran,
                 <<>>, seen, found.analysis, said)
    ELSE [Outcome(c3, "Compile",
                  IF exit # 0 THEN "protoc execution failed" ELSE "",
                  found.analysis.ran, cmd.args, seen, found.analysis,
                  said \o cmd.printed
                       \o Printed(c3, <<[msg |-> "Executing", file |-> <<>>,
                                         n |-> Len(c3.foundFiles)]>>))
          EXCEPT !.effects = Executed(c3, exit)]

\* Compile after the smart filter ran: its result replaces foundFiles unless
\* it is empty
compileFiltered(c2, found, f, exit) ==
    IF f.err # ""
    THEN Outcome(c2, "Compile", "smart filter", found.analysis.ran, <<>>,
                 NoFilter, found.analysis, found.analysis.printed)
    ELSE
    compileBuilt(IF Len(f.files) > 0 THEN [c2 EXCEPT !.foundFiles = f.files] ELSE c2,
                 found,
                 [ran |-> TRUE, input |-> c2.foundFiles, files |-> f.files,
                  kept |-> f.kept, fileImportCount |-> f.fileImportCount,
                  edges |-> f.edges],
                 found.analysis.printed \o f.printed,
                 buildCommand(IF Len(f.files) > 0
                              THEN [c2 EXCEPT !.foundFiles = f.files] ELSE c2),
                 exit)

\* the mutation of compileFound without the test for an empty file list
compileFoundUnchecked(c1, found, exit) ==
    IF found.err # ""
    THEN Outcome(c1, "Compile", found.err, FALSE, <<>>, NoFilter, NoAnalysis, <<>>)
    ELSE IF found.c.smartFilter /\ Len(found.c.foundFiles) > 1
    THEN compileFiltered(found.c, found, filterImportedOnlyFiles(found.c), exit)
    ELSE compileBuilt(found.c, found, NoFilter, found.analysis.printed,
                      buildCommand(found.c), exit)

\* Compile after the files are there: ErrNoProtoFiles, or the smart filter
\* when it is enabled and there is more than one file
compileFound(c1, found, exit) ==
    IF found.err # ""
    THEN Outcome(c1, "Compile", found.err, FALSE, <<>>, NoFilter, NoAnalysis, <<>>)
    ELSE IF Len(found.c.foundFiles) = 0
    THEN Outcome(found.c, "Compile", "ErrNoProtoFiles", FALSE, <<>>, NoFilter,
                 found.analysis, found.analysis.printed)
    ELSE IF found.c.smartFilter /\ Len(found.c.foundFiles) > 1
    THEN compileFiltered(found.c, found, filterImportedOnlyFiles(found.c), exit)
    ELSE compileBuilt(found.c, found, NoFilter, found.analysis.printed,
                      buildCommand(found.c), exit)

\* Compile after validate: FindFiles when no files are cached
compileValidated(cc, v, exit) ==
    IF v.err # ""
    THEN Outcome(cc, "Compile", v.err, FALSE, <<>>, NoFilter, NoAnalysis, <<>>)
    ELSE compileFound(v.c,
                      IF Len(v.c.foundFiles) = 0 THEN FindFiles(v.c)
                      ELSE [c |-> v.c, files |-> v.c.foundFiles, err |-> "",
                            analysis |-> NoAnalysis],
                      exit)

\* Compile, from validation to the exit status of protoc
Compile(cc, exit) == compileValidated(cc, validate(cc), exit)

----------------------------------------------------------------------------
(* The operations *)

\* NewCompiler
NewCompiler ==
    [protoDir |-> Path(FALSE, <<".">>, FALSE),
     outputDir |-> Path(FALSE, <<".">>, FALSE),
     protoPaths |-> <<>>,
     plugins |-> <<"go">>,
     goOpts |-> <<"paths=source_relative">>,
     goGrpcOpts |-> <<"paths=source_relative">>,
     verbose |-> FALSE,
     foundFiles |-> <<>>,
     autoDetectImports |-> TRUE,
     smartFilter |-> TRUE]

AllTools == {"protoc", "protoc-gen-go", "protoc-gen-go-grpc"}

\* the goroutines that share the Compiler
Procs == {1, 2}

\* a goroutine that runs no method of the Compiler
Idle == [op |-> "", at |-> "idle", arg |-> <<>>, cmd |-> <<>>]

\* NewCompiler of src/api.go
NewApiCompiler ==
    [protoDir |-> "", workspaceDir |-> "", outputDir |-> "",
     plugins |-> <<"go">>, goOpts |-> <<"paths=source_relative">>,
     goGrpcOpts |-> <<"paths=source_relative">>, verbose |-> FALSE]

NoApiCall == [op |-> "NewCompiler", err |-> "", started |-> FALSE, output |-> "", panicked |-> FALSE]

\* no include path deduplicated yet
NoRoots == [in |-> <<>>, out |-> <<>>, redone |-> FALSE, again |-> <<>>]

\* no file scanned yet
NoScan == [lines |-> <<>>, ran |-> FALSE, ok |-> TRUE, imports |-> <<>>]

\* the deduplication of include paths and the import scanner are not
\* exercised on their own
NoUnitRun ==
    /\ roots = NoRoots
    /\ scan = NoScan

\* the Compiler of src/api.go is not used
NoApiUse ==
    /\ api = NewApiCompiler
    /\ apiRet = NoApiCall

\* one goroutine uses the Compiler, the mutex is free between its calls, and
\* the Compiler of src/api.go is not used
Sequential ==
    /\ mu = 0
    /\ proc = [g \in Procs |-> Idle]
    /\ NoApiUse
    /\ NoUnitRun

\* a With* mutator: it returns the Compiler, and nothing is printed
With(cc) ==
    /\ c' = cc
    /\ ret' = [op |-> "With", err |-> "", analyzed |-> FALSE]
    /\ cmdArgs' = <<>>
    /\ filt' = NoFilter
    /\ analysis' = NoAnalysis
    /\ stdout' = <<>>
    /\ effects' = NoEffects
    /\ UNCHANGED world

WithProtoDir(dir) == With([c EXCEPT !.protoDir = dir])

WithProtoPaths(paths) == With([c EXCEPT !.protoPaths = paths])

WithPlugins(plugins) == With([c EXCEPT !.plugins = plugins])

WithOutputDir(dir) == With([c EXCEPT !.outputDir = dir])

WithGoOpts(opts) == With([c EXCEPT !.goOpts = opts])

WithGoGrpcOpts(opts) == With([c EXCEPT !.goGrpcOpts = opts])

WithVerbose(verbose) == With([c EXCEPT !.verbose = verbose])

\* a call of FindFiles
CallFindFiles ==
    \E o \in {FindFiles(c)} :
        /\ c' = o.c
        /\ ret' = [op |-> "FindFiles", err |-> o.err, analyzed |-> o.analysis.ran]
        /\ cmdArgs' = <<>>
        /\ filt' = NoFilter
        /\ analysis' = o.analysis
        /\ stdout' = o.analysis.printed
        /\ effects' = NoEffects
        /\ UNCHANGED world

\* a call of Compile; exit is the exit status of protoc
CallCompile(exit) ==
    \E o \in {Compile(c, exit)} :
        /\ c' = o.c
        /\ ret' = o.ret
        /\ cmdArgs' = o.cmdArgs
        /\ filt' = o.filt
        /\ analysis' = o.analysis
        /\ stdout' = o.stdout
        /\ effects' = o.effects
        /\ UNCHANGED world

----------------------------------------------------------------------------
(* Spec: a fresh Compiler over every small tree of .proto files, on a host *)
(* where every tool is installed and protoc succeeds                       *)

\* the trees: which of RootFiles are there, what each imports and declares
IsTree(tree) ==
    \E present \in SUBSET RootFiles :
    \E nA, nB, nC \in 0..MaxTotalImports :
        /\ nA + nB + nC <= MaxTotalImports
        /\ FileA \notin present => nA = 0
        /\ FileSubA \notin present => nB = 0
        /\ FileSubC \notin present => nC = 0
        /\ \E iA \in [1..nA -> Literals], iB \in [1..nB -> Literals],
              iC \in [1..nC -> Literals] :
           \E decl \in [present -> Declarations] :
              tree = [f \in present |->
                        Content(IF f = FileA THEN iA
                                ELSE IF f = FileSubA THEN iB ELSE iC,
                                decl[f] = "service", decl[f] # "none")]

ExtraRoot == Path(TRUE, <<"x">>, FALSE)

ExtraPathLists == {<<>>, <<ExtraRoot>>}

Init ==
    /\ c = NewCompiler
    /\ IsTree(fs)
    /\ hostOS = "unix"
    /\ installed = AllTools
    /\ ret = [op |-> "NewCompiler", err |-> "", analyzed |-> FALSE]
    /\ cmdArgs = <<>>
    /\ filt = NoFilter
    /\ analysis = NoAnalysis
    /\ stdout = <<>>
    /\ effects = NoEffects
    /\ Sequential

Next ==
    \/ \E paths \in ExtraPathLists : WithProtoPaths(paths)
    \/ CallFindFiles
    \/ CallCompile(0)

Spec == Init /\ [][Next]_vars

----------------------------------------------------------------------------
(* SpecCmd: one tree, every spelling of the roots, both hosts *)

\* ".", "/r", "/r/", "sub", "/x", "../x"
RootSpellings ==
    {Path(FALSE, <<".">>, FALSE), Path(TRUE, <<"r">>, FALSE),
     Path(TRUE, <<"r">>, TRUE), Path(FALSE, <<"sub">>, FALSE),
     Path(TRUE, <<"x">>, FALSE), Path(FALSE, <<"..", "x">>, FALSE)}

PluginLists ==
    {<<>>, <<"go">>, <<"go", "go-grpc">>, <<"custom", "go">>}

CmdTree ==
    (FileA :> Content(<<>>, FALSE, TRUE))
    @@ (FileSubA :> Content(<<>>, FALSE, TRUE))
    @@ (FileSubC :> Content(<<<<"a.proto">>>>, TRUE, TRUE))

InitCmd ==
    /\ c = NewCompiler
    /\ fs = CmdTree
    /\ hostOS \in {"unix", "windows"}
    /\ installed = AllTools
    /\ ret = [op |-> "NewCompiler", err |-> "", analyzed |-> FALSE]
    /\ cmdArgs = <<>>
    /\ filt = NoFilter
    /\ analysis = NoAnalysis
    /\ stdout = <<>>
    /\ effects = NoEffects
    /\ Sequential

NextCmd ==
    \/ \E dir \in RootSpellings : WithProtoDir(dir)
    \/ \E paths \in SeqsUpTo(RootSpellings, MaxProtoPaths) : WithProtoPaths(paths)
    \/ \E plugins \in PluginLists : WithPlugins(plugins)
    \/ CallFindFiles
    \/ \E exit \in {0, 1} : CallCompile(exit)

SpecCmd == InitCmd /\ [][NextCmd]_vars

----------------------------------------------------------------------------
(* SpecOpts: one tree and one proto directory, with the plugins, their     *)
(* options and the output directory varied                                 *)

\* no option, the default option, two options
OptLists ==
    {<<>>, <<"paths=source_relative">>, <<"paths=source_relative", "module=m">>}

\* no option, one option
GrpcOptLists == {<<>>, <<"require_unimplemented_servers=false">>}

\* ".", "/x", "gen"
OptOutputDirs ==
    {Path(FALSE, <<".">>, FALSE), Path(TRUE, <<"x">>, FALSE),
     Path(FALSE, <<"gen">>, FALSE)}

InitOpts ==
    /\ c = NewCompiler
    /\ fs = CmdTree
    /\ hostOS = "unix"
    /\ installed = AllTools
    /\ ret = [op |-> "NewCompiler", err |-> "", analyzed |-> FALSE]
    /\ cmdArgs = <<>>
    /\ filt = NoFilter
    /\ analysis = NoAnalysis
    /\ stdout = <<>>
    /\ effects = NoEffects
    /\ Sequential

NextOpts ==
    \/ \E plugins \in PluginLists : WithPlugins(plugins)
    \/ \E opts \in OptLists : WithGoOpts(opts)
    \/ \E opts \in GrpcOptLists : WithGoGrpcOpts(opts)
    \/ \E dir \in OptOutputDirs : WithOutputDir(dir)
    \/ \E exit \in {0, 1} : CallCompile(exit)

SpecOpts == InitOpts /\ [][NextOpts]_vars

----------------------------------------------------------------------------
(* SpecRun: three trees, any set of installed tools, either exit status of *)
(* protoc, with the output directory, the plugins and verbose varied       *)

\* no .proto file below the working directory
EmptyTree == [f \in {} |-> Content(<<>>, FALSE, FALSE)]

\* a.proto imports "../x/d.proto", a file outside the proto directory
EscTree ==
    (FileA :> Content(<<<<"..", "x", "d.proto">>>>, FALSE, TRUE))
    @@ (FileSubA :> Content(<<>>, FALSE, TRUE))

\* a.proto and sub/c.proto cannot be opened; sub/a.proto imports "c.proto"
UnreadableTree ==
    (FileA :> UnreadableContent(<<<<"sub", "c.proto">>>>, FALSE, TRUE))
    @@ (FileSubA :> Content(<<<<"c.proto">>>>, FALSE, TRUE))
    @@ (FileSubC :> UnreadableContent(<<<<"a.proto">>>>, TRUE, TRUE))

RunTrees == {EmptyTree, CmdTree, EscTree, UnreadableTree}

\* ".", "/x"
RunRoots == {Path(FALSE, <<".">>, FALSE), Path(TRUE, <<"x">>, FALSE)}

\* ".", "notes.txt" (a file, so that MkdirAll fails)
RunOutputDirs == {Path(FALSE, <<".">>, FALSE), Path(FALSE, <<"notes.txt">>, FALSE)}

InitRun ==
    /\ c = NewCompiler
    /\ fs \in RunTrees
    /\ hostOS = "unix"
    /\ installed \in SUBSET AllTools
    /\ ret = [op |-> "NewCompiler", err |-> "", analyzed |-> FALSE]
    /\ cmdArgs = <<>>
    /\ filt = NoFilter
    /\ analysis = NoAnalysis
    /\ stdout = <<>>
    /\ effects = NoEffects
    /\ Sequential

NextRun ==
    \/ \E dir \in RunRoots : WithProtoDir(dir)
    \/ \E dir \in RunOutputDirs : WithOutputDir(dir)
    \/ \E plugins \in PluginLists : WithPlugins(plugins)
    \/ \E verbose \in BOOLEAN : WithVerbose(verbose)
    \/ CallFindFiles
    \/ \E exit \in {0, 1} : CallCompile(exit)

SpecRun == InitRun /\ [][NextRun]_vars

----------------------------------------------------------------------------
(* SpecConc: two goroutines share one Compiler.  A method is a sequence of *)
(* steps; proc[g].at is the step goroutine g takes next.  c.mu.Lock() is   *)
(* the first statement of every method: a call starts when it acquires mu. *)

\* the observations of sequential calls, which the steps leave alone
seqObs == <<fs, hostOS, installed, cmdArgs, filt, analysis, effects, api, apiRet,
            roots, scan>>

\* goroutine g moves to step at
Goto(g, at) == [proc EXCEPT ![g].at = at]

\* goroutine g returns from its method
Return(g) == [proc EXCEPT ![g] = Idle]

\* the Compiler fields the step at a label reads or writes
Accesses(at) ==
    CASE at = "set"      -> {"the field of the mutator"}
      [] at = "walk"     -> {"protoDir", "foundFiles", "autoDetectImports",
                             "protoPaths", "verbose"}
      [] at = "validate" -> {"plugins", "protoDir", "outputDir", "foundFiles"}
      [] at = "check"    -> {"foundFiles"}
      [] at = "filter"   -> {"smartFilter", "foundFiles", "protoDir", "verbose"}
      [] at = "mkdir"    -> {"outputDir"}
      [] at = "build"    -> {"protoDir", "plugins", "goOpts", "goGrpcOpts",
                             "outputDir", "foundFiles", "ctx", "verbose"}
      [] at = "report"   -> {"verbose"}
      [] OTHER           -> {}

\* the stages of the resolution pipeline: the walk with the import
\* analysis, the inclusion filter, the command assembly
PipelineStages == {"walk", "filter", "build"}

\* the mutation of muAfterBuild: the mutex is released only when Compile returns
muKeptAfterBuild(g) == g

\* c.mu.Unlock() after buildCommand and the verbose listing, before
\* cmd.CombinedOutput
muAfterBuild(g) == 0

\* the mutation of muOnErrorReturn: Compile returns an error with the mutex
\* still held
muKeptOnErrorReturn(g) == g

\* c.mu.Unlock() before Compile returns an error it found with the mutex held
muOnErrorReturn(g) == 0

\* a With* mutator: c.mu.Lock()
WithLock(g, field, value) ==
    /\ proc[g].at = "idle"
    /\ mu = 0
    /\ mu' = g
    /\ proc' = [proc EXCEPT ![g] = [op |-> "With", at |-> "set",
                                    arg |-> <<field, value>>, cmd |-> <<>>]]
    /\ UNCHANGED <<c, ret, stdout, seqObs>>

\* a With* mutator: the assignment, the deferred Unlock, return c
WithSet(g) ==
    /\ proc[g].at = "set"
    /\ c' = [c EXCEPT ![proc[g].arg[1]] = proc[g].arg[2]]
    /\ mu' = 0
    /\ proc' = Return(g)
    /\ ret' = [op |-> "With", err |-> "", analyzed |-> FALSE]
    /\ UNCHANGED <<stdout, seqObs>>

\* FindFiles: c.mu.Lock(), called by the user or by Compile
FindFilesLock(g) ==
    /\ \/ proc[g].at = "idle"
          /\ proc' = [proc EXCEPT ![g] = [op |-> "FindFiles", at |-> "walk",
                                          arg |-> <<>>, cmd |-> <<>>]]
       \/ proc[g].at = "find"
          /\ proc' = Goto(g, "walk")
    /\ mu = 0
    /\ mu' = g
    /\ UNCHANGED <<c, ret, stdout, seqObs>>

\* FindFiles: the walk, the cache, the import analysis, the deferred Unlock
FindFilesWalk(g) ==
    /\ proc[g].at = "walk"
    /\ \E o \in {FindFiles(c)} :
          /\ c' = o.c
          /\ stdout' = o.analysis.printed
          /\ mu' = 0
          /\ IF proc[g].op = "Compile" /\ o.err = ""
             THEN /\ proc' = [proc EXCEPT ![g].at = "relock",
                                          ![g].arg = Append(@, c.protoDir)]
                  /\ UNCHANGED ret
             ELSE /\ proc' = Return(g)
                  /\ ret' = [op |-> proc[g].op, err |-> o.err,
                             analyzed |-> o.analysis.ran]
    /\ UNCHANGED seqObs

\* Compile: c.mu.Lock()
CompileLock(g) ==
    /\ proc[g].at = "idle"
    /\ mu = 0
    /\ mu' = g
    /\ proc' = [proc EXCEPT ![g] = [op |-> "Compile", at |-> "validate",
                                    arg |-> <<>>, cmd |-> <<>>]]
    /\ UNCHANGED <<c, ret, stdout, seqObs>>

\* Compile: validate, then the Unlock before FindFiles when nothing is cached;
\* arg keeps the directory validate resolved, then the one FindFiles walked
CompileValidate(g) ==
    /\ proc[g].at = "validate"
    /\ \E v \in {validate(c)} :
          IF v.err # ""
          THEN /\ mu' = muOnErrorReturn(g)
               /\ proc' = Return(g)
               /\ ret' = [op |-> "Compile", err |-> v.err, analyzed |-> FALSE]
               /\ UNCHANGED c
          ELSE /\ c' = v.c
               /\ UNCHANGED ret
               /\ IF Len(v.c.foundFiles) = 0
                  THEN /\ mu' = 0
                       /\ proc' = [proc EXCEPT ![g].at = "find",
                                               ![g].arg = <<v.c.protoDir>>]
                  ELSE /\ UNCHANGED mu
                       /\ proc' = [proc EXCEPT ![g].at = "check",
                                               ![g].arg = <<v.c.protoDir>>]
    /\ UNCHANGED <<stdout, seqObs>>

\* Compile: c.mu.Lock() after FindFiles returned
CompileRelock(g) ==
    /\ proc[g].at = "relock"
    /\ mu = 0
    /\ mu' = g
    /\ proc' = Goto(g, "check")
    /\ UNCHANGED <<c, ret, stdout, seqObs>>

\* Compile: ErrNoProtoFiles when the file list is empty
CompileCheck(g) ==
    /\ proc[g].at = "check"
    /\ IF Len(c.foundFiles) = 0
       THEN /\ mu' = muOnErrorReturn(g)
            /\ proc' = Return(g)
            /\ ret' = [op |-> "Compile", err |-> "ErrNoProtoFiles",
                       analyzed |-> FALSE]
       ELSE /\ proc' = Goto(g, "filter")
            /\ UNCHANGED <<mu, ret>>
    /\ UNCHANGED <<c, stdout, seqObs>>

\* Compile: the smart filter
CompileFilter(g) ==
    /\ proc[g].at = "filter"
    /\ IF c.smartFilter /\ Len(c.foundFiles) > 1
       THEN \E f \in {filterImportedOnlyFiles(c)} :
               IF f.err # ""
               THEN /\ mu' = muOnErrorReturn(g)
                    /\ proc' = Return(g)
                    /\ ret' = [op |-> "Compile", err |-> "smart filter",
                               analyzed |-> FALSE]
                    /\ UNCHANGED <<c, stdout>>
               ELSE /\ c' = IF Len(f.files) > 0
                            THEN [c EXCEPT !.foundFiles = f.files] ELSE c
                    /\ stdout' = f.printed
                    /\ proc' = Goto(g, "mkdir")
                    /\ UNCHANGED <<mu, ret>>
       ELSE /\ proc' = Goto(g, "mkdir")
            /\ UNCHANGED <<c, stdout, mu, ret>>
    /\ UNCHANGED seqObs

\* Compile: os.MkdirAll of the output directory
CompileMkdir(g) ==
    /\ proc[g].at = "mkdir"
    /\ IF MkdirAll(c.outputDir)
       THEN /\ proc' = Goto(g, "build")
            /\ UNCHANGED <<mu, ret>>
       ELSE /\ mu' = muOnErrorReturn(g)
            /\ proc' = Return(g)
            /\ ret' = [op |-> "Compile", err |-> "create output directory",
                       analyzed |-> FALSE]
    /\ UNCHANGED <<c, stdout, seqObs>>

\* Compile: buildCommand, the verbose listing, c.mu.Unlock()
CompileBuild(g) ==
    /\ proc[g].at = "build"
    /\ \E cmd \in {buildCommand(c)} :
          /\ proc' = [proc EXCEPT ![g].at = "exec", ![g].cmd = cmd.args]
          /\ stdout' = cmd.printed
                \o Printed(c, <<[msg |-> "Executing", file |-> <<>>,
                                 n |-> Len(c.foundFiles)]>>)
    /\ mu' = muAfterBuild(g)
    /\ UNCHANGED <<c, ret, seqObs>>

\* Compile: cmd.CombinedOutput, and the return when protoc failed
CompileExec(g, exit) ==
    /\ proc[g].at = "exec"
    /\ IF exit # 0
       THEN /\ proc' = Return(g)
            /\ ret' = [op |-> "Compile", err |-> "protoc execution failed",
                       analyzed |-> FALSE]
       ELSE /\ proc' = [proc EXCEPT ![g].at = "report",
                                    ![g].arg = <<CombinedOutput(exit)>>]
            /\ UNCHANGED ret
    /\ UNCHANGED <<c, mu, stdout, seqObs>>

\* Compile: the output printed when c.verbose is set, and the return
CompileReport(g) ==
    /\ proc[g].at = "report"
    /\ stdout' = Printed(c, <<[msg |-> "protoc output", file |-> <<>>, n |-> 0]>>)
    /\ proc' = Return(g)
    /\ ret' = [op |-> "Compile", err |-> "", analyzed |-> FALSE]
    /\ UNCHANGED <<c, mu, seqObs>>

\* "/r", "/x"
ConcRoots == {Path(TRUE, <<"r">>, FALSE), Path(TRUE, <<"x">>, FALSE)}

InitConc ==
    /\ c = NewCompiler
    /\ fs = CmdTree
    /\ hostOS = "unix"
    /\ installed \in {AllTools, AllTools \ {"protoc-gen-go"}}
    /\ ret = [op |-> "NewCompiler", err |-> "", analyzed |-> FALSE]
    /\ cmdArgs = <<>>
    /\ filt = NoFilter
    /\ analysis = NoAnalysis
    /\ stdout = <<>>
    /\ effects = NoEffects
    /\ Sequential

NextConc ==
    \E g \in Procs :
        \/ \E dir \in ConcRoots : WithLock(g, "protoDir", dir)
        \/ \E verbose \in BOOLEAN : WithLock(g, "verbose", verbose)
        \/ \E plugins \in {<<"go">>, <<>>} : WithLock(g, "plugins", plugins)
        \/ WithSet(g)
        \/ FindFilesLock(g)
        \/ FindFilesWalk(g)
        \/ CompileLock(g)
        \/ CompileValidate(g)
        \/ CompileRelock(g)
        \/ CompileCheck(g)
        \/ CompileFilter(g)
        \/ CompileMkdir(g)
        \/ CompileBuild(g)
        \/ \E exit \in {0, 1} : CompileExec(g, exit)
        \/ CompileReport(g)

SpecConc == InitConc /\ [][NextConc]_vars

----------------------------------------------------------------------------
(* SpecLock: the same two goroutines and steps, in the environments where  *)
(* Compile and FindFiles return early: no .proto file, no protoc, a proto  *)
(* directory that does not exist, an output directory that is a file       *)

\* "/r", "/q" (not there)
LockRoots == {Path(TRUE, <<"r">>, FALSE), Path(TRUE, <<"q">>, FALSE)}

InitLock ==
    /\ c = NewCompiler
    /\ fs \in {CmdTree, EmptyTree}
    /\ hostOS = "unix"
    /\ installed \in {AllTools, AllTools \ {"protoc"}}
    /\ ret = [op |-> "NewCompiler", err |-> "", analyzed |-> FALSE]
    /\ cmdArgs = <<>>
    /\ filt = NoFilter
    /\ analysis = NoAnalysis
    /\ stdout = <<>>
    /\ effects = NoEffects
    /\ Sequential

NextLock ==
    \E g \in Procs :
        \/ \E dir \in LockRoots : WithLock(g, "protoDir", dir)
        \/ \E dir \in RunOutputDirs : WithLock(g, "outputDir", dir)
        \/ WithSet(g)
        \/ FindFilesLock(g)
        \/ FindFilesWalk(g)
        \/ CompileLock(g)
        \/ CompileValidate(g)
        \/ CompileRelock(g)
        \/ CompileCheck(g)
        \/ CompileFilter(g)
        \/ CompileMkdir(g)
        \/ CompileBuild(g)
        \/ \E exit \in {0, 1} : CompileExec(g, exit)
        \/ CompileReport(g)

SpecLock == InitLock /\ [][NextLock]_vars

----------------------------------------------------------------------------
(* SpecApi: the Compiler of src/api.go, whose Compile checks the three     *)
(* directories and hands a copy of the configuration to compilerImpl       *)

\* compilerImpl.compile: the pipeline on the copied configuration; it
\* starts, and ends with the output implOut and the error implErr
compilerImplCompile(impl, implOut, implErr) ==
    [op |-> "Compile", err |-> implErr, started |-> TRUE,
     output |-> implOut, panicked |-> FALSE]

\* the mutation of apiCompile that checks the directories in another order
apiCompileOutputFirst(a, implOut, implErr) ==
    IF a.outputDir = ""
    THEN [op |-> "Compile", err |-> "output directory not specified",
          started |-> FALSE, output |-> "", panicked |-> FALSE]
    ELSE IF a.workspaceDir = ""
    THEN [op |-> "Compile", err |-> "workspace directory not specified",
          started |-> FALSE, output |-> "", panicked |-> FALSE]
    ELSE IF a.protoDir = ""
    THEN [op |-> "Compile", err |-> "proto directory not specified",
          started |-> FALSE, output |-> "", panicked |-> FALSE]
    ELSE compilerImplCompile(a, implOut, implErr)

\* Compile of src/api.go
apiCompile(a, implOut, implErr) ==
    IF a.protoDir = ""
    THEN [op |-> "Compile", err |-> "proto directory not specified",
          started |-> FALSE, output |-> "", panicked |-> FALSE]
    ELSE IF a.workspaceDir = ""
    THEN [op |-> "Compile", err |-> "workspace directory not specified",
          started |-> FALSE, output |-> "", panicked |-> FALSE]
    ELSE IF a.outputDir = ""
    THEN [op |-> "Compile", err |-> "output directory not specified",
          started |-> FALSE, output |-> "", panicked |-> FALSE]
    ELSE compilerImplCompile(a, implOut, implErr)

\* the Compiler of this file is not used
apiOnly == <<c, fs, hostOS, installed, ret, cmdArgs, filt, analysis, stdout,
             effects, mu, proc, roots, scan>>

\* a With* mutator of src/api.go
ApiWith(a) ==
    /\ api' = a
    /\ apiRet' = [op |-> "With", err |-> "", started |-> FALSE, output |-> "", panicked |-> FALSE]
    /\ UNCHANGED apiOnly

ApiWithProtoDir(dir) == ApiWith([api EXCEPT !.protoDir = dir])

ApiWithProtoWorkSpace(dir) == ApiWith([api EXCEPT !.workspaceDir = dir])

ApiWithOutputDir(dir) == ApiWith([api EXCEPT !.outputDir = dir])

ApiWithPlugins(plugins) == ApiWith([api EXCEPT !.plugins = plugins])

\* a call of Compile
ApiCompile(implOut, implErr) ==
    /\ apiRet' = apiCompile(api, implOut, implErr)
    /\ UNCHANGED <<api, apiOnly>>

\* the function Compile: a new Compiler, the three directories, Compile
CompileDirs(protoDir, workspaceDir, outputDir, implOut, implErr) ==
    apiCompile([NewApiCompiler EXCEPT !.protoDir = protoDir,
                                      !.workspaceDir = workspaceDir,
                                      !.outputDir = outputDir],
               implOut, implErr)

\* the mutation of MustCompile that returns the output whatever the error
MustCompileIgnoringError(protoDir, workspaceDir, outputDir, implOut, implErr) ==
    LET r == CompileDirs(protoDir, workspaceDir, outputDir, implOut, implErr)
    IN  [op |-> "MustCompile", err |-> "", started |-> r.started,
         output |-> r.output, panicked |-> FALSE,
         args |-> <<protoDir, workspaceDir, outputDir, implOut, implErr>>]

\* MustCompile: the output of Compile, or a panic with its error
MustCompile(protoDir, workspaceDir, outputDir, implOut, implErr) ==
    LET r == CompileDirs(protoDir, workspaceDir, outputDir, implOut, implErr)
    IN  IF r.err # ""
        THEN [op |-> "MustCompile", err |-> <<"protoc.MustCompile: ", r.err>>,
              started |-> r.started, output |-> "", panicked |-> TRUE,
              args |-> <<protoDir, workspaceDir, outputDir, implOut, implErr>>]
        ELSE [op |-> "MustCompile", err |-> "", started |-> r.started,
              output |-> r.output, panicked |-> FALSE,
              args |-> <<protoDir, workspaceDir, outputDir, implOut, implErr>>]

\* a call of the function Compile
ApiCompileDirs(protoDir, workspaceDir, outputDir, implOut, implErr) ==
    /\ apiRet' = [CompileDirs(protoDir, workspaceDir, outputDir, implOut, implErr)
                    EXCEPT !.op = "CompileDirs"]
    /\ UNCHANGED <<api, apiOnly>>

\* a call of MustCompile
ApiMustCompile(protoDir, workspaceDir, outputDir, implOut, implErr) ==
    /\ apiRet' = MustCompile(protoDir, workspaceDir, outputDir, implOut, implErr)
    /\ UNCHANGED <<api, apiOnly>>

\* "" (unspecified), "proto", "proto/act7110"
ApiDirs == {"", "proto", "proto/act7110"}

\* how the pipeline may end
ImplErrors == {"", "no .proto files found", "protoc not found"}

\* the directory arguments of Compile and MustCompile: "" and "proto"
ArgDirs == {"", "proto"}

\* what the pipeline may return as output
ImplOutputs == {"", "protoc output"}

InitApi ==
    /\ c = NewCompiler
    /\ fs = EmptyTree
    /\ hostOS = "unix"
    /\ installed = AllTools
    /\ ret = [op |-> "NewCompiler", err |-> "", analyzed |-> FALSE]
    /\ cmdArgs = <<>>
    /\ filt = NoFilter
    /\ analysis = NoAnalysis
    /\ stdout = <<>>
    /\ effects = NoEffects
    /\ Sequential

NextApi ==
    \/ \E dir \in ApiDirs : ApiWithProtoDir(dir)
    \/ \E dir \in ApiDirs : ApiWithProtoWorkSpace(dir)
    \/ \E dir \in ApiDirs : ApiWithOutputDir(dir)
    \/ \E plugins \in {<<"go">>, <<"go", "go-grpc">>} : ApiWithPlugins(plugins)
    \/ \E implOut \in ImplOutputs, implErr \in ImplErrors :
          ApiCompile(implOut, implErr)
    \/ \E protoDir, workspaceDir, outputDir \in ArgDirs :
       \E implOut \in ImplOutputs, implErr \in ImplErrors :
          ApiCompileDirs(protoDir, workspaceDir, outputDir, implOut, implErr)
    \/ \E protoDir, workspaceDir, outputDir \in ArgDirs :
       \E implOut \in ImplOutputs, implErr \in ImplErrors :
          ApiMustCompile(protoDir, workspaceDir, outputDir, implOut, implErr)

SpecApi == InitApi /\ [][NextApi]_vars

----------------------------------------------------------------------------
(* SpecRoots: the include paths of the deduplicating buildCommand          *)
(* (src/unnamed/part_005), applied to every short list of root spellings   *)
(* and then to its own result                                              *)

\* addIncludePath over the paths in order: a path is appended, as spelled,
\* unless the absolute path it denotes was seen
RECURSIVE addIncludePath(_, _, _)
addIncludePath(paths, includePaths, args) ==
    IF paths = <<>> THEN args
    ELSE IF Abs(Head(paths)) \in includePaths
    THEN addIncludePath(Tail(paths), includePaths, args)
    ELSE addIncludePath(Tail(paths), includePaths \cup {Abs(Head(paths))},
                        Append(args, Head(paths)))

\* addIncludePath with an index that runs on after a removal: the path
\* after a dropped duplicate is appended without being looked up
RECURSIVE addIncludePathSkipping(_, _, _, _)
addIncludePathSkipping(paths, includePaths, args, skip) ==
    IF paths = <<>> THEN args
    ELSE IF ~skip /\ Abs(Head(paths)) \in includePaths
    THEN addIncludePathSkipping(Tail(paths), includePaths, args, TRUE)
    ELSE addIncludePathSkipping(Tail(paths),
                                includePaths \cup {Abs(Head(paths))},
                                Append(args, Head(paths)), FALSE)

\* the mutation of dedupIncludePaths with that index
dedupSkippingNext(paths) == addIncludePathSkipping(paths, {}, <<>>, FALSE)

\* the -I list of buildCommand for the proto directory followed by the
\* proto paths: first spellings kept, in order
dedupIncludePaths(paths) == addIncludePath(paths, {}, <<>>)

\* buildCommand's include paths for the proto directory and the proto
\* paths of roots.in
Deduplicate ==
    /\ roots.in # <<>>
    /\ roots.out = <<>>
    /\ roots' = [roots EXCEPT !.out = dedupIncludePaths(roots.in)]
    /\ UNCHANGED <<c, fs, hostOS, installed, ret, cmdArgs, filt, analysis,
                   stdout, effects, mu, proc, api, apiRet, scan>>

\* the same with the result as proto directory and proto paths
Rededuplicate ==
    /\ roots.out # <<>>
    /\ ~roots.redone
    /\ roots' = [roots EXCEPT !.redone = TRUE,
                              !.again = dedupIncludePaths(roots.out)]
    /\ UNCHANGED <<c, fs, hostOS, installed, ret, cmdArgs, filt, analysis,
                   stdout, effects, mu, proc, api, apiRet, scan>>

\* a proto directory followed by up to MaxExtraRoots proto paths
RootLists ==
    {<<protoDir>> \o protoPaths :
        protoDir \in RootSpellings,
        protoPaths \in SeqsUpTo(RootSpellings, MaxExtraRoots)}

InitRoots ==
    /\ c = NewCompiler
    /\ fs = CmdTree
    /\ hostOS = "unix"
    /\ installed = AllTools
    /\ ret = [op |-> "NewCompiler", err |-> "", analyzed |-> FALSE]
    /\ cmdArgs = <<>>
    /\ filt = NoFilter
    /\ analysis = NoAnalysis
    /\ stdout = <<>>
    /\ effects = NoEffects
    /\ mu = 0
    /\ proc = [g \in Procs |-> Idle]
    /\ NoApiUse
    /\ scan = NoScan
    /\ roots \in {[NoRoots EXCEPT !.in = paths] : paths \in RootLists}

NextRoots ==
    \/ Deduplicate
    \/ Rededuplicate

SpecRoots == InitRoots /\ [][NextRoots]_vars

----------------------------------------------------------------------------
(* SpecScan: the loop of parseImportsFromFile over the lines of a file.  A *)
(* line is a sequence of items (statements, or the "//" that starts an     *)
(* end-of-line comment); its text is the sequence of the words, quotes and *)
(* "//" the scanner sees, with white space between the words               *)

DQ == "\""

SQ == "'"

ImportItem(modifier, quote, literal) ==
    [kind |-> "import", modifier |-> modifier, quote |-> quote,
     literal |-> literal]

CommentItem == [kind |-> "comment", modifier |-> "", quote |-> "", literal |-> <<>>]

MessageItem == [kind |-> "message", modifier |-> "", quote |-> "", literal |-> <<>>]

\* import "a.proto";  import 'b.proto';  import public "a.proto";
\* import "x//y.proto";  //  message M {
LineItems ==
    {ImportItem("", DQ, <<"a.proto">>), ImportItem("", SQ, <<"b.proto">>),
     ImportItem("public", DQ, <<"a.proto">>),
     ImportItem("", DQ, <<"x", "//", "y.proto">>),
     CommentItem, MessageItem}

\* the text of an item
ItemText(item) ==
    IF item.kind = "import"
    THEN <<"import">> \o (IF item.modifier # "" THEN <<item.modifier>> ELSE <<>>)
         \o <<item.quote>> \o item.literal \o <<item.quote, ";">>
    ELSE IF item.kind = "comment" THEN <<"//">>
    ELSE <<"message", "M", "{">>

\* scanner.Text(): the text of a line
RECURSIVE LineText(_)
LineText(line) ==
    IF line = <<>> THEN <<>> ELSE ItemText(Head(line)) \o LineText(Tail(line))

\* line[:strings.Index(line, "//")]
StripComment(text) ==
    LET idx == {i \in 1..Len(text) : text[i] = "//"}
    IN  IF idx = {} THEN text
        ELSE SubSeq(text, 1, (CHOOSE i \in idx : \A j \in idx : i <= j) - 1)

\* the places where import\s+(?:"([^"]+)"|'([^']+)') matches: the word
\* import, a quote, at least one character, the same quote
ImportMatches(text) ==
    {i \in 1..Len(text) :
        /\ text[i] = "import"
        /\ i + 3 <= Len(text)
        /\ text[i + 1] \in {DQ, SQ}
        /\ text[i + 2] # text[i + 1]
        /\ \E j \in (i + 3)..Len(text) : text[j] = text[i + 1]}

\* FindStringSubmatch: the literal of the leftmost match, if there is one
FindStringSubmatch(text) ==
    IF ImportMatches(text) = {} THEN <<>>
    ELSE LET i == CHOOSE m \in ImportMatches(text) :
                      \A n \in ImportMatches(text) : m <= n
             closing == {j \in (i + 3)..Len(text) : text[j] = text[i + 1]}
             j == CHOOSE m \in closing : \A n \in closing : m <= n
         IN  <<SubSeq(text, i + 2, j - 1)>>

\* the body of the loop: what one line appends to imports
parseLine(text) == FindStringSubmatch(StripComment(text))

\* the loop of parseImportsFromFile over the lines
RECURSIVE parseImportsFromLines(_)
parseImportsFromLines(lines) ==
    IF lines = <<>> THEN <<>>
    ELSE parseLine(LineText(Head(lines))) \o parseImportsFromLines(Tail(lines))

\* parseImportsFromFile on the file with the lines scan.lines
ScanFile ==
    /\ ~scan.ran
    /\ scan' = [scan EXCEPT !.ran = TRUE,
                            !.imports = parseImportsFromLines(scan.lines)]
    /\ UNCHANGED <<c, fs, hostOS, installed, ret, cmdArgs, filt, analysis,
                   stdout, effects, mu, proc, api, apiRet, roots>>

\* the files of up to MaxLines lines of up to MaxLineItems items
ScannedFiles == SeqsUpTo(SeqsUpTo(LineItems, MaxLineItems), MaxLines)

InitScan ==
    /\ c = NewCompiler
    /\ fs = CmdTree
    /\ hostOS = "unix"
    /\ installed = AllTools
    /\ ret = [op |-> "NewCompiler", err |-> "", analyzed |-> FALSE]
    /\ cmdArgs = <<>>
    /\ filt = NoFilter
    /\ analysis = NoAnalysis
    /\ stdout = <<>>
    /\ effects = NoEffects
    /\ mu = 0
    /\ proc = [g \in Procs |-> Idle]
    /\ NoApiUse
    /\ roots = NoRoots
    /\ scan \in {[NoScan EXCEPT !.lines = lines] : lines \in ScannedFiles}

NextScan == ScanFile

SpecScan == InitScan /\ [][NextScan]_vars

----------------------------------------------------------------------------
(* Properties *)

Range(s) == {s[i] : i \in 1..Len(s)}

\* the last call was a Compile that assembled a command
Built == ret.op = "Compile" /\ cmdArgs # <<>>

IncludeArgs == SelectSeq(cmdArgs, LAMBDA t : t.kind = "-I")

FileArgs == SelectSeq(cmdArgs, LAMBDA t : t.kind = "file")

\* the resolved imports the last filter run saw
ResolvedEdges == {e \in filt.edges : e.ok}

\* no file of the filter's input imports file
NotImported(file) == ~\E e \in ResolvedEdges : e.to = file

\* the keep rule selects no file of the filter's input
NothingKept ==
    \A f \in Range(filt.input) : ~NotImported(f) /\ ~fileHasServiceDefinition(f)

\* C1: whenever discovery returned at least one file, the compile set that
\* Compile builds the command from is not empty, and neither is the list the
\* filter returns; when the keep rule selects no file, both are the full
\* discovery list.
C1_FallbackInvariant ==
    /\ (ret.op = "Compile" /\ Walk(Abs(c.protoDir)) # <<>>) =>
            /\ Built
            /\ c.foundFiles # <<>>
            /\ Len(FileArgs) >= 1
    /\ filt.ran =>
            /\ filt.files # <<>>
            /\ c.foundFiles = filt.files
            /\ NothingKept => filt.files = filt.input

\* the fallback fired: several files, each imported by another, no service
C1_Witness ==
    /\ Built
    /\ filt.ran
    /\ NothingKept
    /\ Len(c.foundFiles) > 1

\* C2: unless the fallback fires, the filter keeps a file exactly when
\* nothing imports it or it declares a service; so a file with no importer
\* and neither marker is kept, files that import nothing are all kept, and a
\* message-only file that a service file imports is omitted.
C2_InclusionRule ==
    (filt.ran /\ ~NothingKept) =>
        /\ filt.files =
              SelectSeq(filt.input,
                        LAMBDA f : NotImported(f) \/ fileHasServiceDefinition(f))
        /\ \A f \in Range(filt.input) :
              (f \in Range(filt.files)) <=>
                  (Lookup(filt.fileImportCount, f) = 0 \/ fs[f].service)
        /\ ResolvedEdges = {} => filt.files = filt.input
        /\ \A e \in ResolvedEdges :
              (/\ e.from # e.to
               /\ e.from \in Range(filt.input)
               /\ e.to \in Range(filt.input)
               /\ ~fs[e.to].service)
              => e.to \notin Range(c.foundFiles)

\* a service file is kept, the message-only file it imports is omitted, and
\* a file without importer and without marker is kept
C2_Witness ==
    /\ filt.ran
    /\ \E e \in ResolvedEdges :
          /\ fs[e.from].service
          /\ e.from \in Range(filt.files)
          /\ e.to \in Range(filt.input) \ Range(filt.files)
          /\ fs[e.to].message
    /\ \E f \in Range(filt.files) :
          NotImported(f) /\ ~fs[f].service /\ ~fs[f].message

\* the files reached from the set S along resolved imports
RECURSIVE ImportClosure(_)
ImportClosure(S) ==
    LET more == S \cup {e.to : e \in {x \in ResolvedEdges : x.from \in S}}
    IN  IF more = S THEN S ELSE ImportClosure(more)

\* C3: every file the filter omits is imported, directly or transitively,
\* by a file of the compile set.
C3_OmittedReachable ==
    filt.ran =>
        \A f \in Range(filt.input) \ Range(filt.files) :
            f \in ImportClosure(Range(filt.files))

\* C4: no two -I flags of the command denote the same directory, and the
\* primary root has exactly one, also when an extra root spells it again.
C4_NoDuplicateRoot ==
    Built =>
        /\ \A i, j \in 1..Len(IncludeArgs) :
              i # j => Abs(IncludeArgs[i].dir) # Abs(IncludeArgs[j].dir)
        /\ Cardinality({i \in 1..Len(IncludeArgs) :
                           Abs(IncludeArgs[i].dir) = Abs(c.protoDir)}) = 1

\* the caller passed the primary root again, spelled differently
C4_Witness ==
    /\ Built
    /\ \E i \in 1..Len(c.protoPaths) :
          /\ Abs(c.protoPaths[i]) = Abs(c.protoDir)
          /\ c.protoPaths[i] # c.protoDir

\* the sequence without its repetitions, first occurrences kept
RECURSIVE Distinct(_)
Distinct(s) ==
    IF s = <<>> THEN <<>>
    ELSE LET init == Distinct(SubSeq(s, 1, Len(s) - 1))
         IN  IF s[Len(s)] \in Range(init) THEN init ELSE Append(init, s[Len(s)])

\* C5: the command has one -I flag per distinct directory among the primary
\* root and the extra roots, in that order.
C5_FlagPerDistinctRoot ==
    Built =>
        MapSeq(IncludeArgs, LAMBDA t : Abs(t.dir))
            = Distinct(<<Abs(c.protoDir)>> \o MapSeq(c.protoPaths, Abs))

\* C6: every file argument is the path relative to the primary root,
\* written with forward slashes on every host.
C6_ForwardSlashRelative ==
    Built =>
        /\ Len(FileArgs) = Len(c.foundFiles)
        /\ \A k \in 1..Len(FileArgs) :
              /\ FileArgs[k].relative
              /\ Clean(Abs(c.protoDir) \o FileArgs[k].comps) = c.foundFiles[k]
              /\ FileArgs[k].sep = "/"

\* C7: the -I flags, then one output flag per plugin in plugin order, then
\* one file argument per file of the compile set in its order.
C7_ArgumentOrder ==
    Built =>
        LET nI == Len(IncludeArgs)
            nP == Len(c.plugins)
            nF == Len(c.foundFiles)
        IN  /\ Len(cmdArgs) = nI + nP + nF
            /\ nI >= 1
            /\ \A i \in 1..nI : cmdArgs[i].kind = "-I"
            /\ \A j \in 1..nP :
                  /\ cmdArgs[nI + j].kind = "out"
                  /\ cmdArgs[nI + j].plugin = c.plugins[j]
            /\ \A k \in 1..nF :
                  /\ cmdArgs[nI + nP + k].kind = "file"
                  /\ Clean(Abs(c.protoDir) \o cmdArgs[nI + nP + k].comps)
                        = c.foundFiles[k]

\* a command with two plugins and two files
C7_Witness ==
    /\ Built
    /\ Len(c.plugins) >= 2
    /\ c.plugins[1] # c.plugins[2]
    /\ Len(c.foundFiles) >= 2

\* the ancestors of a directory, nearest first
RECURSIVE Ancestors(_)
Ancestors(dir) ==
    IF dir = <<>> THEN <<>> ELSE <<Dir(dir)>> \o Ancestors(Dir(dir))

\* where the stated order looks for a literal of a file
StatedCandidates(literal, file) ==
    <<Join(Dir(file), literal), Join(Abs(c.protoDir), literal)>>
    \o MapSeq(c.protoPaths, LAMBDA p : Join(Abs(p), literal))
    \o MapSeq(Ancestors(Abs(c.protoDir)), LAMBDA d : Join(d, literal))

\* C8: a literal resolves to the first that exists of: next to the file,
\* under the primary root, under each extra root in order, under the
\* ancestors of the primary root; it is unresolved only when none exists.
C8_ResolutionOrder ==
    filt.ran =>
        \A e \in filt.edges :
            LET hits == SelectSeq(StatedCandidates(e.literal, e.from), Exists)
            IN  IF hits = <<>> THEN ~e.ok ELSE e.ok /\ e.to = Head(hits)

\* C9: a literal that one file imports on two lines adds one to its
\* target's in-degree, not two.
C9_DistinctImporters ==
    filt.ran =>
        \A p \in DOMAIN filt.fileImportCount :
            filt.fileImportCount[p] =
                Cardinality({<<e.from, e.literal>> :
                                e \in {x \in ResolvedEdges : x.to = p}})

\* C10: an import that resolveImportPath cannot resolve adds to no file's
\* in-degree, and the import analysis of the same Compile counts it as not
\* found.
C10_UnresolvedCounted ==
    (filt.ran /\ ret.analyzed) =>
        /\ SumSeq(MapSeq(SetToSeq(DOMAIN filt.fileImportCount),
                         LAMBDA p : filt.fileImportCount[p]))
              = Cardinality(ResolvedEdges)
        /\ \A e \in filt.edges \ ResolvedEdges :
              /\ e.literal \in analysis.notFound
              /\ analysis.totalImports - analysis.importsFound
                    = Cardinality(analysis.notFound)

\* the imports of the filter's input that parseImportsFromFile returned
DeclaredImports ==
    UNION { LET imports == parseImportsFromFile(filt.input[k]).imports
            IN  {[from |-> filt.input[k], idx |-> i, literal |-> imports[i]] :
                    i \in 1..Len(imports)}
            : k \in 1..Len(filt.input) }

\* C11: every declared import of a discovered file is either a counted edge
\* to a discovered file or recorded as unresolved; no counted edge leads to
\* a path outside the discovered files.
C11_EdgeOrUnresolved ==
    (filt.ran /\ ret.analyzed) =>
        /\ \A d \in DeclaredImports :
              \E e \in filt.edges :
                  /\ e.from = d.from /\ e.idx = d.idx /\ e.literal = d.literal
                  /\ \/ e.ok /\ e.to \in Range(filt.input)
                     \/ ~e.ok /\ e.literal \in analysis.notFound
        /\ DOMAIN filt.fileImportCount \subseteq Range(filt.input)

\* the files of the filter's input, other than file, that import file
Importers(file) ==
    {e.from : e \in {x \in ResolvedEdges : x.to = file /\ x.from # file}}
        \cap Range(filt.input)

\* file declares messages and no service, and exactly one other discovered
\* file imports it
ImportedMessageFile(file) ==
    /\ fileHasMessageDefinitions(file)
    /\ ~fileHasServiceDefinition(file)
    /\ Cardinality(Importers(file)) = 1

\* file is a file argument of the command, as filepath.Rel gives it
PassedRelative(file) ==
    \E k \in 1..Len(FileArgs) :
        /\ k <= Len(c.foundFiles)
        /\ c.foundFiles[k] = file
        /\ FileArgs[k].relative
        /\ Clean(Abs(c.protoDir) \o FileArgs[k].comps) = file

C13_OutsideFileFlagged ==
    (Built /\ c.verbose) =>
        \A k \in 1..Len(c.foundFiles) :
            ~IsPrefix(Abs(c.protoDir), c.foundFiles[k]) =>
                \E m \in Range(stdout) :
                    /\ m.msg = "Warning: File is outside proto directory"
                    /\ m.file = c.foundFiles[k]

\* C14: a goroutine about to read or write a field of the Compiler holds
\* the mutex.
C14_AccessUnderMutex ==
    \A g \in Procs : Accesses(proc[g].at) # {} => mu = g

\* C15: while protoc runs for a goroutine, that goroutine does not hold the
\* mutex.
C15_ExecOutsideMutex ==
    \A g \in Procs : proc[g].at = "exec" => mu # g

\* protoc runs for one goroutine while a WithProtoDir of the other has
\* completed since the command was built
C15_Witness ==
    \E g \in Procs :
        /\ proc[g].at = "exec"
        /\ mu = 0
        /\ proc[g].cmd[1].dir # c.protoDir
        /\ \A h \in Procs \ {g} : proc[h].at = "idle"

\* C16: a goroutine in a stage of the resolution pipeline does not hold the
\* mutex.
C16_PipelineOutsideMutex ==
    \A g \in Procs : proc[g].at \in PipelineStages => mu # g

\* C17: Compile of src/api.go reports the first unspecified directory among
\* proto, workspace and output, in that order, and the pipeline (walk, tool
\* lookup, protoc) has not started.
C17_ConfigErrorFirst ==
    apiRet.op = "Compile" =>
        /\ api.protoDir = "" =>
              apiRet.err = "proto directory not specified"
        /\ (api.protoDir # "" /\ api.workspaceDir = "") =>
              apiRet.err = "workspace directory not specified"
        /\ (api.protoDir # "" /\ api.workspaceDir # "" /\ api.outputDir = "") =>
              apiRet.err = "output directory not specified"
        /\ (api.protoDir = "" \/ api.workspaceDir = "" \/ api.outputDir = "")
              <=> ~apiRet.started

\* Compile with the proto directory and the others unspecified
C17_Witness ==
    /\ apiRet.op = "Compile"
    /\ api.protoDir = ""
    /\ api.outputDir = ""
    /\ api.workspaceDir # ""
    /\ apiRet.err = "proto directory not specified"

\* the last call was a Compile whose configuration validate accepted
Validated ==
    /\ ret.op = "Compile"
    /\ ret.err \notin {"ErrProtocNotFound", "ErrPluginNotFound"}

\* C18: a Compile whose discovery finds no .proto file returns
\* ErrNoProtoFiles without creating the output directory or running protoc,
\* and no Compile that goes further has an empty file list.
C18_NoProtoFilesTerminal ==
    /\ (Validated /\ Walk(Abs(c.protoDir)) = <<>> /\ c.foundFiles = <<>>) =>
            /\ ret.err = "ErrNoProtoFiles"
            /\ effects = NoEffects
            /\ cmdArgs = <<>>
    /\ (ret.op = "Compile" /\ ret.err = "ErrNoProtoFiles") =>
            /\ c.foundFiles = <<>>
            /\ effects = NoEffects
    /\ (Validated /\ ret.err # "ErrNoProtoFiles") =>
            /\ c.foundFiles # <<>>
            /\ filt.ran => filt.files # <<>>
    /\ effects.execs > 0 => Len(FileArgs) > 0

\* Compile on a directory without .proto files, every tool installed
C18_Witness ==
    /\ ret.op = "Compile"
    /\ ret.err = "ErrNoProtoFiles"
    /\ installed = AllTools
    /\ Walk(Abs(c.protoDir)) = <<>>

\* the binary protoc runs for an output plugin
RequiredBinary(plugin) ==
    IF plugin = "go" THEN "protoc-gen-go"
    ELSE IF plugin = "go-grpc" THEN "protoc-gen-go-grpc"
    ELSE "protoc-gen-" \o plugin

\* C19: when protoc or the binary of any configured plugin is missing,
\* Compile stops with ErrProtocNotFound or ErrPluginNotFound before
\* discovery, filtering, MkdirAll and execution.
C19_MissingToolStops ==
    (/\ ret.op = "Compile"
     /\ \/ "protoc" \notin installed
        \/ \E i \in 1..Len(c.plugins) : RequiredBinary(c.plugins[i]) \notin installed)
    =>  /\ ret.err \in {"ErrProtocNotFound", "ErrPluginNotFound"}
        /\ ~ret.analyzed
        /\ ~filt.ran
        /\ effects = NoEffects
        /\ cmdArgs = <<>>

\* C20: one Compile runs protoc at most once; when protoc exits non-zero
\* Compile returns "protoc execution failed" with the captured output as
\* its string.
C20_ExecutedOnce ==
    ret.op = "Compile" =>
        /\ effects.execs \in {0, 1}
        /\ effects.execs = 0 => (cmdArgs = <<>> /\ effects.returned = "")
        /\ effects.execs = 1 => effects.returned = effects.captured
        /\ ret.err = "protoc execution failed"
              <=> (effects.execs = 1 /\ effects.captured = CombinedOutput(1))
        /\ (effects.execs = 1 /\ effects.captured = CombinedOutput(0))
              => ret.err = ""

\* protoc ran and failed
C20_Witness ==
    /\ ret.op = "Compile"
    /\ ret.err = "protoc execution failed"
    /\ effects.execs = 1
    /\ effects.returned = CombinedOutput(1)

\* os.Open fails on the file
Unreadable(file) == file \in DOMAIN fs /\ ~fs[file].readable

\* C21: a file that cannot be opened is skipped by the import scan: no edge
\* starts at it, its imports are not analysed, neither FindFiles nor Compile
\* fails because of it, it stays in the discovery result, and the filter
\* keeps it by the same rule as any file without a detected service.
C21_UnreadableSkipped ==
    /\ ret.op \in {"FindFiles", "Compile"} =>
            ret.err \notin {"smart filter", "analyze imports", "walk directory"}
    /\ (ret.op = "FindFiles" /\ ret.err = "") =>
            /\ c.foundFiles = Walk(Abs(c.protoDir))
            /\ ret.analyzed =>
                  analysis.totalImports =
                      Cardinality(UNION {Range(fs[f].imports) :
                          f \in {x \in Range(c.foundFiles) \cap DOMAIN fs :
                                    fs[x].readable}})
    /\ filt.ran =>
            \A f \in Range(filt.input) :
                Unreadable(f) =>
                    /\ ~\E e \in filt.edges : e.from = f
                    /\ f \in Range(filt.kept) <=> NotImported(f)
                    /\ NotImported(f) => f \in Range(c.foundFiles)

\* the filter ran over an unreadable file that it keeps and one that it omits
C21_Witness ==
    /\ filt.ran
    /\ ret.err = ""
    /\ \E f \in Range(filt.input) :
          Unreadable(f) /\ fs[f].imports # <<>> /\ f \in Range(c.foundFiles)
    /\ \E f \in Range(filt.input) :
          Unreadable(f) /\ f \notin Range(c.foundFiles)

\* C22: deduplicating the deduplicated include paths again gives the same
\* sequence, in the same order with the same spellings.
C22_DedupIdempotent ==
    roots.redone => roots.again = roots.out

\* a list with a repeated directory under two spellings, deduplicated twice
C22_Witness ==
    /\ roots.redone
    /\ Len(roots.out) >= 2
    /\ Len(roots.in) > Len(roots.out)
    /\ \E i, j \in 1..Len(roots.in) :
          /\ i < j
          /\ roots.in[i] # roots.in[j]
          /\ Abs(roots.in[i]) = Abs(roots.in[j])

OutputArgs == SelectSeq(cmdArgs, LAMBDA t : t.kind = "out")

\* the options the source gives the output flag of a plugin
PluginOptions(plugin) ==
    IF plugin = "go" THEN c.goOpts
    ELSE IF plugin = "go-grpc" THEN c.goGrpcOpts
    ELSE <<>>

\* C23: the command carries one output flag per configured plugin, in the
\* order of the plugins: "go" with goOpts, "go-grpc" with goGrpcOpts, any
\* other plugin with no option; the value is the options, a ":" exactly when
\* there is an option, and the output directory.
C23_OutputFlagPerPlugin ==
    Built =>
        /\ Len(OutputArgs) = Len(c.plugins)
        /\ \A i \in 1..Len(OutputArgs) :
              /\ OutputArgs[i].plugin = c.plugins[i]
              /\ OutputArgs[i].value.opts = PluginOptions(c.plugins[i])
              /\ OutputArgs[i].value.colon = (PluginOptions(c.plugins[i]) # <<>>)
              /\ OutputArgs[i].value.dir = c.outputDir

\* a command for a custom plugin and for "go" with an empty option list
C23_Witness ==
    /\ Built
    /\ c.plugins = <<"custom", "go">>
    /\ c.goOpts = <<>>
    /\ Len(OutputArgs) = 2
    /\ ~OutputArgs[2].value.colon

C25_OneConfiguration ==
    \A g \in Procs :
        (proc[g].op = "Compile" /\ proc[g].at = "exec" /\ Len(proc[g].arg) = 2) =>
            /\ proc[g].cmd[1].dir = proc[g].arg[1]
            /\ Abs(proc[g].arg[2]) = Abs(proc[g].arg[1])

\* C26: the files a Compile lists were discovered under the proto directory
\* configured when it was called.
C26_CurrentDirectoryCompiled ==
    Built => Range(c.foundFiles) \subseteq Range(Walk(Abs(c.protoDir)))

\* the steps a goroutine takes without the mutex: outside a method, about to
\* lock it again inside Compile, and from the run of protoc on
Unlocked == {"idle", "find", "relock", "exec", "report"}

\* C27: a goroutine that has returned from Compile, FindFiles or a With*
\* call, or that is about to lock the mutex, does not hold it; the mutex is
\* held only by a goroutine inside a method, and it is free when no call is
\* in progress.
C27_MutexReleased ==
    /\ \A g \in Procs : proc[g].at \in Unlocked => mu # g
    /\ mu # 0 => mu \in Procs /\ proc[mu].at \notin Unlocked
    /\ (\A g \in Procs : proc[g].at = "idle") => mu = 0

\* Compile has returned the error of its FindFiles, and no call is in
\* progress
C27_Witness ==
    /\ ret.op = "Compile"
    /\ ret.err = "walk directory"
    /\ \A g \in Procs : proc[g].at = "idle"
    /\ mu = 0

\* C28: a Compile that follows a Compile which assembled a command, with
\* nothing changed in between, assembles the same argument list, and its
\* filter returns the list it was given.
C28_CompileRepeatable ==
    [][(Built /\ ret'.op = "Compile") =>
            /\ cmdArgs' = cmdArgs
            /\ filt'.ran => filt'.files = filt'.input]_vars

\* the filter has run on a list it had shortened before
C28_Witness ==
    /\ Built
    /\ filt.ran
    /\ filt.files = filt.input
    /\ Range(filt.input) \subseteq Range(Walk(Abs(c.protoDir)))
    /\ Len(filt.input) < Len(Walk(Abs(c.protoDir)))

\* s can be had from t by leaving elements out
RECURSIVE IsSubsequence(_, _)
IsSubsequence(s, t) ==
    IF s = <<>> THEN TRUE
    ELSE IF t = <<>> THEN FALSE
    ELSE IF Head(s) = Head(t) THEN IsSubsequence(Tail(s), Tail(t))
    ELSE IsSubsequence(s, Tail(t))

\* C29: the files a Compile lists are, in discovery order and each once,
\* files the walk of the proto directory finds; the filter returns a
\* subsequence of the list it was given; the command has one file argument
\* per listed file, in the same order.
C29_CompileSetSubsequence ==
    Built =>
        /\ IsSubsequence(c.foundFiles, Walk(Abs(c.protoDir)))
        /\ Distinct(c.foundFiles) = c.foundFiles
        /\ filt.ran => /\ c.foundFiles = filt.files
                       /\ IsSubsequence(filt.files, filt.input)
        /\ Len(FileArgs) = Len(c.foundFiles)
        /\ \A i \in 1..Len(FileArgs) : FileArgs[i] = FileArg(c, c.foundFiles[i])

\* the filter left a file out and kept two
C29_Witness ==
    /\ Built
    /\ filt.ran
    /\ Len(filt.files) >= 2
    /\ Len(filt.files) < Len(filt.input)
    /\ Len(FileArgs) = Len(filt.files)

\* the literals of the import statements of a line that stand before its
\* end-of-line comment
RECURSIVE DeclaredInLine(_)
DeclaredInLine(line) ==
    IF line = <<>> \/ Head(line).kind = "comment" THEN <<>>
    ELSE (IF Head(line).kind = "import" THEN <<Head(line).literal>> ELSE <<>>)
         \o DeclaredInLine(Tail(line))

RECURSIVE DeclaredOutsideComments(_)
DeclaredOutsideComments(lines) ==
    IF lines = <<>> THEN <<>>
    ELSE DeclaredInLine(Head(lines)) \o DeclaredOutsideComments(Tail(lines))

\* C30: the scanner returns the literals of the import statements that stand
\* outside an end-of-line comment, each unchanged, in file order with
\* duplicates, and none of the imports inside a comment.
C30_ImportsRecorded ==
    scan.ran => scan.imports = DeclaredOutsideComments(scan.lines)

====
